---- MODULE Spec2Model ----
(***************************************************************************)
(* A model of the data-analysis agent: the three tools of tools.py         *)
(* (load_csv, load_excel, python_repl) over the process-wide table `df`,   *)
(* pyplot's open figures and the shared plot directory, and the            *)
(* conversation graph of graph.py (call_model, tools, route_model_output). *)
(*                                                                         *)
(* A result string is a sequence of fragments, in the order the code       *)
(* concatenates them.  A line of code is a sequence of characters, so the  *)
(* last-line heuristic of python_repl is computed as the code computes it. *)
(***************************************************************************)
EXTENDS Integers, Sequences, FiniteSets, TLC

\* ------------------------------------------------------------------ bounds
MaxLines == 2      \* lines in one snippet handed to python_repl
MaxCalls == 2      \* python_repl calls in one run of the tool layer
NumUids  == 2      \* distinct values of the 8-hex-digit uuid prefix

\* ------------------------------------------------------- result fragments
\* a piece of text of a result string (n and f are those of no image)
T(s) == [kind |-> "text", s |-> s, n |-> 0, f |-> 0]

\* '![Visualization {idx + 1}]({plot_url})' with plot_url = origin + filename
Img(k, name) == [kind |-> "img", s |-> "Visualization", n |-> k, f |-> name]

NoDfMsg == "Error: No dataframe loaded. Please load a CSV file first using the load_csv tool."
ExecErrPrefix == "Error executing code: "
NoOutputMsg == "Code executed successfully (no output produced)."
VizBegin == "<!-- VISUALIZATION OUTPUT -->\n"
VizEnd == "\n<!-- END VISUALIZATION OUTPUT -->"
HtmlTable == "<table border=\"1\" class=\"dataframe\">...</table>\n"
ReprLine == "repr(result)\n"

\* ------------------------------------------------------------ the table
\* df = None
NoTable == [src |-> "", sheet |-> "", cols |-> 0]

\* ------------------------------------------------- the files on the disk
\* What pandas and pathlib find at each path the tools are called with.
\*   format "csv": read_csv parses it; "excel": read_excel parses it;
\*   strHeaders: every column label is a string (always so after read_csv,
\*   not so for a workbook whose header row holds a number).
Paths == {"missing.csv", "a.csv", "empty.csv", "b.xlsx", "n.XLSX"}

Disk(p) ==
    CASE p = "missing.csv" -> [exists |-> FALSE, suffix |-> ".csv", format |-> "none",
                               sheets |-> <<>>, strHeaders |-> TRUE, cols |-> 0]
      [] p = "a.csv"       -> [exists |-> TRUE, suffix |-> ".csv", format |-> "csv",
                               sheets |-> <<>>, strHeaders |-> TRUE, cols |-> 1]
      [] p = "empty.csv"   -> [exists |-> TRUE, suffix |-> ".csv", format |-> "none",
                               sheets |-> <<>>, strHeaders |-> TRUE, cols |-> 0]
      [] p = "b.xlsx"      -> [exists |-> TRUE, suffix |-> ".xlsx", format |-> "excel",
                               sheets |-> <<"S1", "S2">>, strHeaders |-> TRUE, cols |-> 2]
      [] p = "n.XLSX"      -> [exists |-> TRUE, suffix |-> ".XLSX", format |-> "excel",
                               sheets |-> <<"S1">>, strHeaders |-> FALSE, cols |-> 2]

\* sheet_name arguments; "" is the default None
SheetArgs == {"", "S2", "Nope"}

\* str.lower() on the suffixes that occur
Lower(s) == IF s = ".XLSX" THEN ".xlsx" ELSE s

ExcelSuffixes == {".xlsx", ".xls", ".xlsm", ".xlsb"}

Range(q) == {q[i] : i \in DOMAIN q}

\* ------------------------------------------------------------- load_csv
LoadReturn(result, table) == [outcome |-> "returned", result |-> result, df |-> table]

\* the summary of lines 36-40 / 80-84: ', '.join(df.columns.tolist()) raises
\* TypeError when a column label is not a string
SummaryFaults(file) == ~file.strHeaders

load_csv(cur, path) ==
    LET file == Disk(path)
        table == [src |-> path, sheet |-> "", cols |-> file.cols]
    IN  IF ~file.exists
        THEN LoadReturn(<<T("Error: File '"), T(path), T("' not found.")>>, cur)
        ELSE IF file.format # "csv"
        THEN \* pd.read_csv raises before df is bound
             LoadReturn(<<T("Error loading CSV file: "), T("read_csv failed")>>, cur)
        ELSE IF SummaryFaults(file)
        THEN LoadReturn(<<T("Error loading CSV file: "), T("expected str instance")>>, table)
        ELSE LoadReturn(<<T("Successfully loaded CSV file '"), T(path), T("'\n")>>, table)

\* ----------------------------------------------------------- load_excel
\* lines 66-78: which sheet was read, and the other sheets when none was named
sheet_info(file, sheet_name) ==
    IF sheet_name # ""
    THEN <<T(" from sheet '"), T(sheet_name), T("'")>>
    ELSE <<T(" from sheet '"), T(file.sheets[1]), T("' (first sheet)")>>
         \o (IF Len(file.sheets) > 1
             THEN <<T("\nAvailable sheets: ")>> \o [i \in DOMAIN file.sheets |-> T(file.sheets[i])]
             ELSE <<>>)

load_excel(cur, path, sheet_name) ==
    LET file == Disk(path)
        picked == IF sheet_name # "" THEN sheet_name ELSE file.sheets[1]
        table == [src |-> path, sheet |-> picked, cols |-> file.cols]
    IN  IF ~file.exists
        THEN LoadReturn(<<T("Error: File '"), T(path), T("' not found.")>>, cur)
        ELSE IF Lower(file.suffix) \notin ExcelSuffixes
        THEN LoadReturn(<<T("Error: File '"), T(path), T("' is not an Excel file.")>>, cur)
        ELSE IF file.format # "excel"
        THEN \* ValueError without "Worksheet" in it, raised by read_excel
             LoadReturn(<<T("Error loading Excel file: "), T("format cannot be determined")>>, cur)
        ELSE IF sheet_name # "" /\ sheet_name \notin Range(file.sheets)
        THEN \* ValueError "Worksheet named ... not found", raised by read_excel
             LoadReturn(<<T("Error: "), T("Worksheet named"), T(sheet_name),
                          T("\nAvailable sheets: ")>>
                        \o [i \in DOMAIN file.sheets |-> T(file.sheets[i])], cur)
        ELSE IF SummaryFaults(file)
        THEN \* TypeError from the summary, after df was rebound (line 67 / 71)
             LoadReturn(<<T("Error loading Excel file: "), T("expected str instance")>>, table)
        ELSE LoadReturn(<<T("Successfully loaded Excel file '"), T(path), T("'")>>
                        \o sheet_info(file, sheet_name) \o <<T("\n")>>, table)

\* ------------------------------------------------- the lines of a snippet
\* The source text of each line a snippet may hold, as characters.
Text(st) ==
    CASE st = "assign" -> <<"x", " ", "=", " ", "1">>
      [] st = "print"  -> <<"p", "r", "i", "n", "t", "(", "1", ")">>
      [] st = "df"     -> <<"d", "f">>
      [] st = "head"   -> <<"d", "f", ".", "h", "e", "a", "d", "(", "n", "=", "1", ")">>
      [] st = "figure" -> <<"p", "l", "t", ".", "f", "i", "g", "u", "r", "e", "(", ")">>
      [] st = "div"    -> <<"1", "/", "0">>
      [] st = "exit"   -> <<"r", "a", "i", "s", "e", " ", "S", "y", "s", "t", "e", "m",
                            "E", "x", "i", "t">>
      [] st = "import" -> <<"i", "m", "p", "o", "r", "t", " ", "o", "s">>
      [] st = "pass"   -> <<"p", "a", "s", "s">>
      [] st = "poppr"  -> <<"(", "p", "r", "i", "n", "t", "(", "1", ")", ",", " ", "d", "f",
                            ".", "p", "o", "p", "(", "d", "f", ".", "c", "o", "l", "u", "m",
                            "n", "s", "[", "0", "]", ")", ")">>
      [] st = "figs21" -> <<"p", "l", "t", ".", "f", "i", "g", "u", "r", "e", "(", "2", ")",
                            ";", " ", "p", "l", "t", ".", "f", "i", "g", "u", "r", "e", "(",
                            "1", ")">>
      [] st = "blank"  -> <<>>

Stmts == {"assign", "print", "df", "head", "figure", "div", "exit", "import", "pass",
          "poppr", "figs21", "blank"}

\* What Python does when it runs the line: its effects in order, whether the
\* text compiles as an expression (eval raises SyntaxError otherwise), and the
\* kind of value the expression has ("table": a DataFrame, "none": None).
\* IsAssignment: the line is an assignment statement of the grammar.
Sem(st) ==
    CASE st = "assign" -> [effects |-> <<>>, expr |-> FALSE, value |-> "none"]
      [] st = "print"  -> [effects |-> <<"print">>, expr |-> TRUE, value |-> "none"]
      [] st = "df"     -> [effects |-> <<>>, expr |-> TRUE, value |-> "table"]
      [] st = "head"   -> [effects |-> <<>>, expr |-> TRUE, value |-> "table"]
      [] st = "figure" -> [effects |-> <<"fig">>, expr |-> TRUE, value |-> "other"]
      [] st = "div"    -> [effects |-> <<"div">>, expr |-> TRUE, value |-> "other"]
      [] st = "exit"   -> [effects |-> <<"exit">>, expr |-> FALSE, value |-> "none"]
      [] st = "import" -> [effects |-> <<>>, expr |-> FALSE, value |-> "none"]
      [] st = "pass"   -> [effects |-> <<>>, expr |-> FALSE, value |-> "none"]
      [] st = "poppr"  -> [effects |-> <<"print", "pop">>, expr |-> TRUE, value |-> "other"]
      [] st = "figs21" -> [effects |-> <<"fig2", "fig1">>, expr |-> FALSE, value |-> "none"]
      [] st = "blank"  -> [effects |-> <<>>, expr |-> FALSE, value |-> "none"]

IsAssignment(st) == st = "assign"

\* the snippets: 1..MaxLines lines
Snippets == UNION {[1..k -> Stmts] : k \in 1..MaxLines}

\* --------------------------------------------------- running the snippet
\* The state of one execution: the table object bound to df in the namespace
\* (the same object as the global), the capture buffer, pyplot's open figures,
\* and the fault that stopped it, if one did.
Raise(es, kind, msg) == [es EXCEPT !.fault = kind, !.msg = msg]

\* pyplot numbers a new figure max(open numbers) + 1
NextNum(figs) ==
    IF figs = <<>> THEN 1
    ELSE (CHOOSE m \in {figs[i].num : i \in DOMAIN figs} :
              \A i \in DOMAIN figs : figs[i].num <= m) + 1

\* plt.figure(num): the open figure of that number becomes the current one;
\* when there is none, a figure of that number is created
figure(num, es) ==
    IF \E i \in DOMAIN es.figs : es.figs[i].num = num THEN es
    ELSE [es EXCEPT !.figs = Append(@, [num |-> num, call |-> es.call, seq |-> es.made + 1]),
                    !.made = @ + 1]

Effect(e, es) ==
    CASE e = "print" -> [es EXCEPT !.out = Append(@, T("1\n"))]
      [] e = "fig"   -> figure(NextNum(es.figs), es)
      [] e = "fig1"  -> figure(1, es)
      [] e = "fig2"  -> figure(2, es)
      [] e = "pop"   -> IF es.tab.cols > 0
                        THEN [es EXCEPT !.tab.cols = @ - 1]
                        ELSE Raise(es, "Exception", "index 0 is out of bounds")
      [] e = "div"   -> Raise(es, "Exception", "division by zero")
      [] e = "exit"  -> Raise(es, "BaseException", "")

RECURSIVE RunEffects(_, _)
RunEffects(effs, es) ==
    IF effs = <<>> \/ es.fault # "none" THEN es
    ELSE RunEffects(Tail(effs), Effect(Head(effs), es))

\* exec(code, local_namespace): the lines in order, up to the first fault
RECURSIVE exec(_, _)
exec(code, es) ==
    IF code = <<>> \/ es.fault # "none" THEN es
    ELSE exec(Tail(code), RunEffects(Sem(Head(code)).effects, [es EXCEPT !.ran = @ + 1]))

\* ------------------------------------------- the trailing-expression step
IsSpace(c) == c = " "

RECURSIVE LStrip(_)
LStrip(line) == IF line # <<>> /\ IsSpace(Head(line)) THEN LStrip(Tail(line)) ELSE line

RECURSIVE RStrip(_)
RStrip(line) ==
    IF line # <<>> /\ IsSpace(line[Len(line)])
    THEN RStrip(SubSeq(line, 1, Len(line) - 1)) ELSE line

\* str.strip() of one line
Strip(line) == RStrip(LStrip(line))

RECURSIVE DropBlankTail(_)
DropBlankTail(lines) ==
    IF lines # <<>> /\ Strip(lines[Len(lines)]) = <<>>
    THEN DropBlankTail(SubSeq(lines, 1, Len(lines) - 1)) ELSE lines

RECURSIVE DropBlankHead(_)
DropBlankHead(lines) ==
    IF lines # <<>> /\ Strip(Head(lines)) = <<>> THEN DropBlankHead(Tail(lines)) ELSE lines

\* code.strip().split('\n'): the blank lines at both ends go; '' splits to ['']
StripSplit(code) ==
    LET kept == DropBlankHead(DropBlankTail([i \in DOMAIN code |-> Text(code[i])]))
    IN  IF kept = <<>> THEN << <<>> >> ELSE kept

StartsWith(line, kw) == Len(kw) <= Len(line) /\ SubSeq(line, 1, Len(kw)) = kw

Contains(line, c) == \E i \in DOMAIN line : line[i] = c

Keywords == { <<"i", "m", "p", "o", "r", "t">>, <<"f", "r", "o", "m">>, <<"d", "e", "f">>,
              <<"c", "l", "a", "s", "s">>, <<"i", "f">>, <<"f", "o", "r">>,
              <<"w", "h", "i", "l", "e">>, <<"w", "i", "t", "h">>, <<"t", "r", "y">> }

\* lines 186-188: "likely an expression"
LooksLikeExpression(last_line) ==
    /\ ~\E kw \in Keywords : StartsWith(last_line, kw)
    /\ ~Contains(last_line, "=")
    /\ last_line # <<>>

\* the line of the language whose text this is
StmtOf(text) == CHOOSE st \in Stmts : Text(st) = text

\* lines 189-198: eval the line again in the same namespace, print a value that
\* is not None; the bare except swallows every fault, and what the line did
\* before it faulted stays done
TrailingEval(last_line, es) ==
    LET sem == Sem(StmtOf(last_line))
        ran == IF sem.expr THEN RunEffects(sem.effects, es)
               ELSE Raise(es, "Exception", "invalid syntax")
    IN  IF ran.fault # "none"
        THEN [ran EXCEPT !.fault = "none", !.msg = "", !.evalFault = TRUE]
        ELSE IF sem.value = "none" THEN ran
        ELSE IF sem.value = "table"
        THEN [ran EXCEPT !.out = Append(@, T(HtmlTable))]
        ELSE [ran EXCEPT !.out = Append(@, T(ReprLine))]

\* lines 181-198
TrailingStep(code, es) ==
    LET lines == StripSplit(code)
        last_line == Strip(lines[Len(lines)])
    IN  IF LooksLikeExpression(last_line)
        THEN TrailingEval(last_line, [es EXCEPT !.evalTried = TRUE])
        ELSE es

\* ------------------------------------------------------ capturing figures
\* plt.get_fignums(): the open figures' numbers, sorted
RECURSIVE get_fignums(_)
get_fignums(figs) ==
    IF figs = <<>> THEN <<>>
    ELSE LET i == CHOOSE i \in DOMAIN figs : \A j \in DOMAIN figs : figs[i].num <= figs[j].num
             rest == [k \in 1..(Len(figs) - 1) |-> IF k < i THEN figs[k] ELSE figs[k + 1]]
         IN  <<figs[i]>> \o get_fignums(rest)

\* f"plot_{timestamp}_{unique_id}.png": the calls of one run fall within one
\* second, so that the timestamp is the same in every name and the name is
\* told by its uuid prefix
Filename(unique_id) == unique_id

\* fig.savefig(filepath): the file of that name is created or overwritten
savefig(dir, name, fig, call) ==
    {f \in dir : f.name # name} \cup {[name |-> name, fig |-> fig, by |-> call]}

\* lines 213-230: one file and one reference per figure, in the order of
\* get_fignums; uid[i] is the uuid prefix drawn for the i-th of them
RECURSIVE SaveFigures(_, _, _, _, _, _)
SaveFigures(figures, idx, dir, plot_outputs, uid, call) ==
    IF idx > Len(figures) THEN [dir |-> dir, plot_outputs |-> plot_outputs]
    ELSE SaveFigures(figures, idx + 1,
                     savefig(dir, Filename(uid[idx]), figures[idx], call),
                     Append(plot_outputs, Img(idx, Filename(uid[idx]))), uid, call)

\* "\n".join(plot_outputs)
RECURSIVE JoinLines(_)
JoinLines(items) ==
    IF Len(items) <= 1 THEN items
    ELSE <<Head(items), T("\n")>> \o JoinLines(Tail(items))

\* lines 232-238
AddPlots(output, plot_outputs) ==
    IF plot_outputs = <<>> THEN output
    ELSE (IF output # <<>> THEN output \o <<T("\n\n")>> ELSE output)
         \o <<T(VizBegin)>> \o JoinLines(plot_outputs) \o <<T(VizEnd)>>

\* the cleanup forgotten
CloseAll_Forgotten(figs) == figs

\* line 250, in the finally clause: plt.close('all')
CloseAll(figs) == <<>>

\* ---------------------------------------------------------- python_repl
NoFacts == [ran |-> 0, execFault |-> "none", execMsg |-> "", execOut |-> <<>>, execFigs |-> 0]

\* what exec did, kept with the call's result
Facts(es1) == [ran |-> es1.ran, execFault |-> es1.fault, execMsg |-> es1.msg,
               execOut |-> es1.out, execFigs |-> es1.made]

\* lines 200-244, then the finally clause; the loop has closed each figure it
\* saved (line 225), so none is left for the finally clause
ReplSuccess(es1, es2, saved) ==
    [outcome |-> "returned",
     result |-> IF AddPlots(es2.out, saved.plot_outputs) = <<>> THEN <<T(NoOutputMsg)>>
                ELSE AddPlots(es2.out, saved.plot_outputs),
     df |-> es2.tab, figs |-> CloseAll(<<>>), dir |-> saved.dir,
     evalTried |-> es2.evalTried, evalFault |-> es2.evalFault, facts |-> Facts(es1)]

\* lines 246-247, then the finally clause
ReplExcept(es1, dir) ==
    [outcome |-> "returned", result |-> <<T(ExecErrPrefix), T(es1.msg)>>,
     df |-> es1.tab, figs |-> CloseAll(es1.figs), dir |-> dir,
     evalTried |-> FALSE, evalFault |-> FALSE, facts |-> Facts(es1)]

\* "except Exception" does not match: the finally clause runs and the fault
\* leaves python_repl
ReplPropagate(es1, dir) ==
    [outcome |-> "raised", result |-> <<>>,
     df |-> es1.tab, figs |-> CloseAll(es1.figs), dir |-> dir,
     evalTried |-> FALSE, evalFault |-> FALSE, facts |-> Facts(es1)]

\* lines 200-230 after the with block
ReplCapture(es1, es2, dir, uid, call) ==
    ReplSuccess(es1, es2, SaveFigures(get_fignums(es2.figs), 1, dir, <<>>, uid, call))

\* lines 167-198 and the handlers.  Lines 129-165 before them choose the
\* backend and the font: they touch neither the table nor the capture buffer,
\* and the warning of line 159 goes to the process's own stdout.
ReplTry(es1, dir, uid, code, call, trailing) ==
    IF es1.fault = "Exception" THEN ReplExcept(es1, dir)
    ELSE IF es1.fault = "BaseException" THEN ReplPropagate(es1, dir)
    ELSE ReplCapture(es1, IF trailing THEN TrailingStep(code, es1) ELSE es1, dir, uid, call)

\* the check of lines 112-113 left out
ReplBody_NoGuard(cur, figs, dir, uid, code, call, trailing) ==
    ReplTry(exec(code, [tab |-> cur, out |-> <<>>, figs |-> figs, fault |-> "none",
                        msg |-> "", ran |-> 0, made |-> 0, call |-> call,
                        evalTried |-> FALSE, evalFault |-> FALSE]),
            dir, uid, code, call, trailing)

\* One call.  `trailing` is TRUE in the program: it is a parameter so that a
\* call can be compared with the same call without lines 181-198.
ReplBody(cur, figs, dir, uid, code, call, trailing) ==
    IF cur = NoTable
    THEN \* lines 112-113, before the try
         [outcome |-> "returned", result |-> <<T(NoDfMsg)>>, df |-> cur, figs |-> figs,
          dir |-> dir, evalTried |-> FALSE, evalFault |-> FALSE, facts |-> NoFacts]
    ELSE ReplTry(exec(code, [tab |-> cur, out |-> <<>>, figs |-> figs, fault |-> "none",
                             msg |-> "", ran |-> 0, made |-> 0, call |-> call,
                             evalTried |-> FALSE, evalFault |-> FALSE]),
                 dir, uid, code, call, trailing)

python_repl(cur, figs, dir, uid, code, call) ==
    ReplBody(cur, figs, dir, uid, code, call, TRUE)

\* ------------------------------------------------------------ the graph
\* bounds of the conversation
MaxSteps == 3       \* supersteps of one invocation of the graph
MaxTurns == 2       \* user messages in one conversation
MaxToolCalls == 2   \* tool calls in one model response

Msg(type, content, tool_calls, id) ==
    [type |-> type, content |-> content, tool_calls |-> tool_calls, id |-> id]

HumanMessage == Msg("human", <<T("question")>>, <<>>, "")

ApologyText == "Sorry, I could not find an answer to your question in the specified number of steps."

\* the tool calls the model may ask for
ToolCalls == { [name |-> "load_csv", path |-> "a.csv", code |-> <<>>],
               [name |-> "python_repl", path |-> "", code |-> <<"figure">>],
               [name |-> "python_repl", path |-> "", code |-> <<"print">>] }

\* what model.ainvoke may answer: some text, and zero or more tool calls
Responses ==
    { Msg("ai", <<T("answer")>>, tc, "response") :
        tc \in UNION {[1..k -> ToolCalls] : k \in 0..MaxToolCalls} }

\* State.is_last_step, managed by the framework: this superstep is the last the
\* step budget allows
IsLastStep(step) == step + 1 >= MaxSteps

\* State.messages is reduced with add_messages: what a node returns is appended
add_messages(left, right) == left \o right

\* re.findall(img_pattern, msg.content): the image tags of one content
FindImages(content) == SelectSeq(content, LAMBDA frag : frag.kind = "img")

RECURSIVE extract_images_from_messages(_)
extract_images_from_messages(messages) ==
    IF messages = <<>> THEN <<>>
    ELSE (IF Head(messages).type = "tool" THEN FindImages(Head(messages).content) ELSE <<>>)
         \o extract_images_from_messages(Tail(messages))

\* line 77: '![' in msg.content and 'http://localhost:8001/' in msg.content
MentionsImage(content) == \E i \in DOMAIN content : content[i].kind = "img"

\* lines 74-80: i runs from len - 1 down to max(0, len - 5) + 1 (0-based);
\* messages[i] is messages[i + 1] here
RECURSIVE RecentImages(_, _)
RecentImages(messages, i) ==
    LET floor == IF Len(messages) - 5 > 0 THEN Len(messages) - 5 ELSE 0
    IN  IF i <= floor THEN <<>>
        ELSE IF messages[i + 1].type = "tool" /\ MentionsImage(messages[i + 1].content)
        THEN extract_images_from_messages(<<messages[i + 1]>>)
        ELSE RecentImages(messages, i - 1)

\* lines 82-99
WithImages(recent_images, response) ==
    IF recent_images # <<>> /\ response.tool_calls = <<>>
    THEN <<Msg("ai", JoinLines(recent_images), <<>>, "response_images"), response>>
    ELSE <<response>>

\* lines 63-70: the apology, under the id of the response it replaces
Apology(answer) == Msg("ai", <<T(ApologyText)>>, <<>>, answer.id)

\* lines 61-70 left out
call_model_NoBudget(messages, is_last_step, response) ==
    WithImages(RecentImages(messages, Len(messages) - 1), response)

\* what call_model returns for the model's response
call_model(messages, is_last_step, response) ==
    IF is_last_step /\ response.tool_calls # <<>>
    THEN <<Apology(response)>>
    ELSE WithImages(RecentImages(messages, Len(messages) - 1), response)

route_model_output(messages) ==
    LET last_message == messages[Len(messages)]
    IN  IF last_message.type # "ai" THEN "ValueError"
        ELSE IF last_message.tool_calls = <<>> THEN "__end__"
        ELSE "tools"

Uids == 1..NumUids

\* most figures one call can have open when it captures them: one for each
\* line, and one more for the last line evaluated again or for the line that
\* opens two
MaxFigs == MaxLines + 2

\* str(uuid.uuid4())[:8], drawn once for each figure the call saves
UidDraws(n) == [1..n -> Uids]

\* the figures open when the call reaches line 204
Captured(cur, figs, code) ==
    Cardinality(ReplBody(cur, figs, {}, [i \in 1..MaxFigs |-> i], code, 0, TRUE).dir)

\* one tool call of the tools node, on the tools' state; the call takes the
\* next of the node's uuid draws, one for each figure it saves
RunTool(tc, ts, uid) ==
    IF tc.name = "load_csv"
    THEN [ts EXCEPT !.df = load_csv(ts.df, tc.path).df,
                    !.content = load_csv(ts.df, tc.path).result]
    ELSE LET n == Captured(ts.df, ts.figs, tc.code)
             r == python_repl(ts.df, ts.figs, ts.dir,
                              SubSeq(uid, ts.used + 1, ts.used + n), tc.code, ts.calls + 1)
         IN  [df |-> r.df, figs |-> r.figs, dir |-> r.dir, calls |-> ts.calls + 1,
              used |-> ts.used + n, content |-> r.result]

\* ToolNode(TOOLS): the calls of the last message in order, one ToolMessage each
RECURSIVE RunTools(_, _, _, _)
RunTools(tcs, ts, uid, out) ==
    IF tcs = <<>> THEN [ts |-> ts, messages |-> out]
    ELSE LET after == RunTool(Head(tcs), ts, uid)
         IN  RunTools(Tail(tcs), after, uid,
                      Append(out, Msg("tool", after.content, <<>>, "")))

\* the uuid draws the calls of one response need
DrawsNeeded(tcs, ts) ==
    RunTools(tcs, ts, [i \in 1..(Len(tcs) * MaxFigs) |-> 1], <<>>).ts.used

\* ------------------------------------------------------------- the state
VARIABLES
    df,        \* tools.df, the process-wide table
    openFigs,  \* pyplot's open figures
    plotDir,   \* the files of /tmp/dataanalysis_plots
    calls,     \* python_repl calls made so far
    last,      \* the latest tool call: its arguments, what it found, what it returned
    messages,  \* State.messages of the conversation
    node,      \* the node of the graph that runs next
    step,      \* supersteps taken in this invocation of the graph
    turns,     \* user messages so far
    response   \* what the model answered when call_model last ran

toolVars == <<df, openFigs, plotDir, calls, last>>
graphVars == <<messages, node, step, turns, response>>
vars == <<df, openFigs, plotDir, calls, last, messages, node, step, turns, response>>

NoCall == [op |-> "none", path |-> "", sheet |-> "", code |-> <<>>, uid |-> <<>>,
           outcome |-> "returned", result |-> <<>>,
           evalTried |-> FALSE, evalFault |-> FALSE, facts |-> NoFacts]

Init ==
    /\ df = NoTable
    /\ openFigs = <<>>
    /\ plotDir = {}
    /\ calls = 0
    /\ last = NoCall
    /\ messages = <<HumanMessage>>
    /\ node = "call_model"
    /\ step = 0
    /\ turns = 1
    /\ response = Msg("ai", <<>>, <<>>, "")

CallLoadCsv ==
    \E path \in Paths :
      \E r \in {load_csv(df, path)} :
        /\ df' = r.df
        /\ last' = [NoCall EXCEPT !.op = "load_csv", !.path = path, !.outcome = r.outcome,
                                  !.result = r.result]
        /\ UNCHANGED <<openFigs, plotDir, calls, graphVars>>

CallLoadExcel ==
    \E path \in Paths, sheet_name \in SheetArgs :
      \E r \in {load_excel(df, path, sheet_name)} :
        /\ df' = r.df
        /\ last' = [NoCall EXCEPT !.op = "load_excel", !.path = path, !.sheet = sheet_name,
                                  !.outcome = r.outcome, !.result = r.result]
        /\ UNCHANGED <<openFigs, plotDir, calls, graphVars>>

CallPythonRepl ==
    /\ calls < MaxCalls
    /\ \E code \in Snippets :
       \E uid \in UidDraws(Captured(df, openFigs, code)) :
        \E r \in {python_repl(df, openFigs, plotDir, uid, code, calls + 1)} :
            /\ df' = r.df
            /\ openFigs' = r.figs
            /\ plotDir' = r.dir
            /\ calls' = calls + 1
            /\ last' = [op |-> "python_repl", path |-> "", sheet |-> "", code |-> code,
                        uid |-> uid, outcome |-> r.outcome, result |-> r.result,
                        evalTried |-> r.evalTried, evalFault |-> r.evalFault,
                        facts |-> r.facts]
            /\ UNCHANGED graphVars

Next == CallLoadCsv \/ CallLoadExcel \/ CallPythonRepl

\* the tools, called in any order
Spec == Init /\ [][Next]_vars

\* ----------------------------------------------------- the graph's nodes
\* the node call_model, then the conditional edge of lines 136-141
NodeCallModel ==
    /\ node = "call_model"
    /\ \E answer \in Responses :
        \E out \in {call_model(messages, IsLastStep(step), answer)} :
            /\ messages' = add_messages(messages, out)
            /\ node' = route_model_output(add_messages(messages, out))
            /\ response' = answer
    /\ step' = step + 1
    /\ UNCHANGED <<toolVars, turns>>

\* the tools' state as the tools node finds it
ToolState == [df |-> df, figs |-> openFigs, dir |-> plotDir, calls |-> calls,
              used |-> 0, content |-> <<>>]

\* the node tools, then the edge of line 145
NodeTools ==
    /\ node = "tools"
    /\ \E uid \in UidDraws(DrawsNeeded(messages[Len(messages)].tool_calls, ToolState)) :
        \E r \in {RunTools(messages[Len(messages)].tool_calls, ToolState, uid, <<>>)} :
            /\ df' = r.ts.df
            /\ openFigs' = r.ts.figs
            /\ plotDir' = r.ts.dir
            /\ calls' = r.ts.calls
            /\ messages' = add_messages(messages, r.messages)
    /\ node' = "call_model"
    /\ step' = step + 1
    /\ UNCHANGED <<last, turns, response>>

\* the user asks again: the graph is invoked on the conversation so far
NewTurn ==
    /\ node = "__end__"
    /\ turns < MaxTurns
    /\ messages' = add_messages(messages, <<HumanMessage>>)
    /\ node' = "call_model"
    /\ step' = 0
    /\ turns' = turns + 1
    /\ UNCHANGED <<toolVars, response>>

GraphNext == NodeCallModel \/ NodeTools \/ NewTurn

\* the conversation
GraphSpec == Init /\ [][GraphNext]_vars

\* ================================================================ claims
\* the first fragment of every error result of the three tools
ErrorHeads == {"Error: File '", "Error loading CSV file: ", "Error: ",
               "Error loading Excel file: ", ExecErrPrefix, NoDfMsg}

IsErrorResult(result) == result # <<>> /\ result[1].s \in ErrorHeads

IsLoad(op) == op \in {"load_csv", "load_excel"}

\* C1: a load operation that returns an error result leaves the Loaded Table
\* as it was before the call, whatever made it fail.
C1_FailedLoadKeepsTable ==
    [][(IsLoad(last'.op) /\ IsErrorResult(last'.result)) => df' = df]_vars

\* C2: no fault crosses the tool boundary: every call of load_csv, load_excel
\* or python_repl returns a result string, whatever fault occurred inside it.
C2_EveryCallReturns ==
    last.op # "none" => last.outcome = "returned"

\* C3: with a table loaded, a snippet that raises an unhandled fault makes
\* python_repl return exactly the error prefix followed by the fault's
\* message, with nothing the snippet printed, and no file is created.
C3_FaultGivesPrefixAndMessage ==
    [][(calls' = calls + 1 /\ df # NoTable /\ last'.facts.execFault # "none")
        => /\ last'.outcome = "returned"
           /\ last'.result = <<T(ExecErrPrefix), T(last'.facts.execMsg)>>
           /\ plotDir' = plotDir]_vars

\* the fragments of a result between the two sentinel lines
BetweenSentinels(result) ==
    LET b == {i \in DOMAIN result : result[i] = T(VizBegin)}
        e == {i \in DOMAIN result : result[i] = T(VizEnd)}
    IN  IF b = {} \/ e = {} THEN <<>>
        ELSE SubSeq(result, (CHOOSE i \in b : TRUE) + 1, (CHOOSE i \in e : TRUE) - 1)

\* C4: a call whose snippet renders exactly n >= 1 figures and raises no
\* fault returns exactly n image references between the sentinel lines,
\* labelled Visualization 1..n, naming n distinct files that exist in the
\* plot directory under the names in the references.
C4_OneReferencePerFigure ==
    (last.op = "python_repl" /\ last.outcome = "returned"
        /\ last.facts.execFault = "none" /\ last.facts.execFigs >= 1)
    => LET refs == FindImages(BetweenSentinels(last.result))
           n == last.facts.execFigs
       IN  /\ Len(refs) = n
           /\ \A k \in 1..Len(refs) : refs[k].n = k
           /\ \A j, k \in 1..Len(refs) : j # k => refs[j].f # refs[k].f
           /\ \A k \in 1..Len(refs) : \E f \in plotDir : f.name = refs[k].f

\* the last line of the snippet that is not empty ("blank" when none is)
LastNonEmpty(code) ==
    LET full == {i \in DOMAIN code : code[i] # "blank"}
    IN  IF full = {} THEN "blank"
        ELSE code[CHOOSE i \in full : \A j \in full : j <= i]

HasFragment(result, s) == \E i \in DOMAIN result : result[i] = T(s)

\* C5: after a snippet that executes without fault, a last non-empty line that
\* is a bare expression (no statement keyword in front, no assignment
\* operator) evaluating to a table puts an HTML table in the result; a last
\* line that is an assignment auto-prints nothing.
C5_TrailingTableIsPrinted ==
    (last.op = "python_repl" /\ last.outcome = "returned"
        /\ last.result # <<T(NoDfMsg)>> /\ last.facts.execFault = "none")
    => LET st == LastNonEmpty(last.code)
       IN  /\ (/\ ~\E kw \in Keywords : StartsWith(Text(st), kw)
               /\ ~IsAssignment(st)
               /\ Sem(st).expr /\ Sem(st).value = "table")
              => HasFragment(last.result, HtmlTable)
           /\ IsAssignment(st)
              => ~HasFragment(last.result, HtmlTable) /\ ~HasFragment(last.result, ReprLine)

\* C6: when the trailing-expression evaluation faults, the call returns what
\* it would return had that evaluation not been attempted.
C6_TrailingFaultIsInvisible ==
    [][(calls' = calls + 1 /\ last'.evalFault)
        => /\ last'.outcome = "returned"
           /\ last'.result =
                ReplBody(df, openFigs, plotDir, last'.uid, last'.code, calls', FALSE).result]_vars

\* C7: a python_repl call made while no table is loaded returns the fixed
\* message, runs no line of the snippet, creates no file and leaves the table
\* absent.
C7_NoTableNoExecution ==
    [][(calls' = calls + 1 /\ df = NoTable)
        => /\ last'.outcome = "returned"
           /\ last'.result = <<T(NoDfMsg)>>
           /\ last'.facts.ran = 0 /\ last'.facts.execOut = <<>> /\ last'.facts.execFigs = 0
           /\ plotDir' = plotDir
           /\ openFigs' = openFigs
           /\ df' = NoTable]_vars

\* a python_repl call met no table, after a load had failed
C7_Witness ==
    /\ last.op = "python_repl" /\ last.code # <<>> /\ calls = MaxCalls
    /\ last.result = <<T(NoDfMsg)>>
    /\ df = NoTable

\* C9: once a python_repl call is over, on whichever path, no figure is open;
\* so every file of the plot directory was saved by the call that made its
\* figure.
C9_NoFigureOutlivesItsCall ==
    /\ openFigs = <<>>
    /\ \A f \in plotDir : f.fig.call = f.by

\* a call faulted with a figure open, and the figure is gone
C9_Witness ==
    /\ last.op = "python_repl"
    /\ last.facts.execFault # "none" /\ last.facts.execFigs >= 1
    /\ openFigs = <<>>

\* C8: when call_model runs on the last allowed step and the model asks for a
\* tool, only the apology is returned, the graph ends and the tools node is
\* not entered; otherwise the model's message comes last, the graph goes to
\* the tools node exactly when that message carries tool calls and ends when
\* it carries none, and the tools node always leads back to call_model.
C8_LoopGovernance ==
    [][/\ (node = "call_model" /\ IsLastStep(step) /\ response'.tool_calls # <<>>)
           => /\ messages' = messages \o <<Apology(response')>>
              /\ node' = "__end__"
       /\ (node = "call_model" /\ ~(IsLastStep(step) /\ response'.tool_calls # <<>>))
           => /\ messages'[Len(messages')] = response'
              /\ node' = (IF response'.tool_calls # <<>> THEN "tools" ELSE "__end__")
       /\ node = "tools"
           => /\ messages[Len(messages)].type = "ai"
              /\ messages[Len(messages)].tool_calls # <<>>
              /\ node' = "call_model"
       /\ node = "__end__"
           => /\ messages[Len(messages)].type = "ai"
              /\ messages[Len(messages)].tool_calls = <<>>
              /\ node' = "call_model" /\ step' = 0 /\ turns' = turns + 1]_vars

\* the budget ran out after a round of tools while the model asked for more
C8_Witness ==
    /\ node = "__end__"
    /\ response.tool_calls # <<>>
    /\ messages[Len(messages)] = Apology(response)
    /\ \E j \in DOMAIN messages : messages[j].type = "tool"

\* C10: an image message prepended to a final response holds exactly the
\* image references of the most recent tool message, which has some and
\* belongs to the current turn; images of an earlier tool call or an earlier
\* turn are not surfaced again.
C10_OnlyLatestToolImages ==
    \A k \in DOMAIN messages :
        messages[k].id = "response_images"
        => LET tools == {j \in 1..(k - 1) : messages[j].type = "tool"}
               humans == {j \in 1..(k - 1) : messages[j].type = "human"}
           IN  /\ tools # {}
               /\ LET j == CHOOSE j \in tools : \A i \in tools : i <= j
                  IN  /\ FindImages(messages[j].content) # <<>>
                      /\ messages[k].content = JoinLines(FindImages(messages[j].content))
                      /\ \A h \in humans : h < j

\* the uuid prefixes drawn in one call are pairwise distinct
DistinctDraws(uid) == \A j, k \in DOMAIN uid : j # k => uid[j] # uid[k]

\* C11: references come in the order the figures were created: when a call
\* returns with several figures captured under distinct names, the k-th
\* reference ("Visualization k") names the file rasterized from the k-th figure
\* the call created, whatever the figures' numbers.
C11_ReferencesInCreationOrder ==
    (last.op = "python_repl" /\ last.outcome = "returned"
        /\ Len(last.uid) >= 2 /\ DistinctDraws(last.uid))
    => LET refs == FindImages(BetweenSentinels(last.result))
       IN  \A k \in DOMAIN refs :
               /\ refs[k].n = k
               /\ \E f \in plotDir : f.name = refs[k].f /\ f.by = calls /\ f.fig.seq = k

\* what the call printed, in the order it appears in the result
Printed(result) ==
    SelectSeq(result, LAMBDA frag : frag \in {T("1\n"), T(HtmlTable), T(ReprLine)})

\* C12: each line of the snippet takes effect once in a call: with a table
\* loaded and no fault from the snippet, the result holds what one execution
\* printed, followed by at most the value of the last expression, and the
\* table and the saved files are those of one execution of the snippet.
C12_EachStatementRunsOnce ==
    [][(calls' = calls + 1 /\ df # NoTable /\ last'.facts.execFault = "none")
        => \E once \in {ReplBody(df, openFigs, plotDir, last'.uid, last'.code, calls', FALSE)} :
              /\ last'.outcome = "returned"
              /\ Printed(last'.result) \in {last'.facts.execOut,
                                            last'.facts.execOut \o <<T(HtmlTable)>>,
                                            last'.facts.execOut \o <<T(ReprLine)>>}
              /\ df' = once.df
              /\ plotDir' = once.dir]_vars

====
